---- MODULE Spec2Model ----
(***************************************************************************)
(* Model of src/app.py: a Streamlit shopping list whose table lives in one *)
(* CSV file on Google Drive.  Every script run ("invocation") loads the    *)
(* whole file into a DataFrame, maybe applies one command, and writes the  *)
(* whole DataFrame back.                                                   *)
(*                                                                         *)
(* Three layers are kept apart:                                            *)
(*   - the file: rows of CSV text fields;                                  *)
(*   - the DataFrame: rows of typed cells, as pandas.read_csv infers them; *)
(*   - the commands: the Add button and the toggle/delete URL parameters.  *)
(***************************************************************************)
EXTENDS Integers, Sequences, FiniteSets, TLC

VARIABLES file, clock, pc, btn, url, df, processed, ev, lastSave

vars == <<file, clock, pc, btn, url, df, processed, ev, lastSave>>

(***************************************************************************)
(* Bounds.                                                                 *)
(***************************************************************************)
\* number of accepted Adds in a run (each takes the next clock value as its
\* datetime.now())
MaxAdds == 2

\* the browser sessions
Sessions == {"A", "B"}

(***************************************************************************)
(* Program constants.                                                      *)
(***************************************************************************)
CATEGORIES == <<"Vegetables", "Beverages", "Meat/Dairy", "Frozen", "Dry Goods">>
STORES == <<"Costco", "Trader Joe's", "Whole Foods", "Other">>

\* the order sort_values(by="category") puts the category strings in
\* (Python string comparison)
CategoryOrder == <<"Beverages", "Dry Goods", "Frozen", "Meat/Dairy", "Vegetables">>

Range(f) == {f[i] : i \in DOMAIN f}

(***************************************************************************)
(* Text.  An item name is a sequence of characters.                        *)
(***************************************************************************)
Space == " "
Digits == {"0", "1"}
DigitValue == [c \in Digits |-> IF c = "0" THEN 0 ELSE 1]

\* the values of selectbox(..., index=None): None or one of the options
None == "None"

\* str.strip(): leading and trailing whitespace removed
RECURSIVE LStrip(_)
LStrip(s) == IF s # <<>> /\ Head(s) = Space THEN LStrip(Tail(s)) ELSE s

RECURSIVE RStrip(_)
RStrip(s) ==
    IF s # <<>> /\ s[Len(s)] = Space THEN RStrip(SubSeq(s, 1, Len(s) - 1)) ELSE s

Strip(s) == RStrip(LStrip(s))

IsIntText(t) == t # <<>> /\ \A i \in 1..Len(t) : t[i] \in Digits

RECURSIVE ParseInt(_)
ParseInt(t) ==
    IF t = <<>> THEN 0
    ELSE 10 * ParseInt(SubSeq(t, 1, Len(t) - 1)) + DigitValue[t[Len(t)]]

\* the decimal text of a number whose digits are all in Digits (the only
\* numbers ParseInt yields here)
RECURSIVE FormatInt(_)
FormatInt(n) ==
    IF n < 10 THEN <<IF n = 0 THEN "0" ELSE "1">>
    ELSE FormatInt(n \div 10) \o FormatInt(n % 10)

\* the texts to_csv writes for a float64 column of whole numbers: "1.0"
IsFloatText(t) ==
    /\ Len(t) >= 3
    /\ t[Len(t)] = "0"
    /\ t[Len(t) - 1] = "."
    /\ IsIntText(SubSeq(t, 1, Len(t) - 2))

ParseFloat(t) == ParseInt(SubSeq(t, 1, Len(t) - 2))

\* the default na_values of read_csv that the alphabet can spell
NaTexts == {<<>>, <<"N", "A">>}

(***************************************************************************)
(* DataFrame cells.  read_csv gives the item column one dtype: int64,      *)
(* float64 or object; a cell built by the Add handler is a Python str.     *)
(***************************************************************************)
StrCell(s) == [t |-> "str", s |-> s, n |-> 0]
IntCell(n) == [t |-> "int", s |-> <<>>, n |-> n]
FloatCell(n) == [t |-> "float", s |-> <<>>, n |-> n]
NaNCell == [t |-> "nan", s |-> <<>>, n |-> 0]

\* pd.read_csv on the item column: the NA texts become NaN; a column whose
\* texts are all integers is int64; integers, floats and NaN make float64;
\* anything else leaves an object column of the texts as they are
ReadItemColumn(texts) ==
    LET idx == 1..Len(texts)
        isNa(i) == texts[i] \in NaTexts
        allInt == \A i \in idx : IsIntText(texts[i])
        allNum == \A i \in idx :
                      isNa(i) \/ IsIntText(texts[i]) \/ IsFloatText(texts[i])
    IN  [i \in idx |->
            IF allInt THEN IntCell(ParseInt(texts[i]))
            ELSE IF isNa(i) THEN NaNCell
            ELSE IF allNum
                 THEN (IF IsIntText(texts[i])
                       THEN FloatCell(ParseInt(texts[i]))
                       ELSE FloatCell(ParseFloat(texts[i])))
            ELSE StrCell(texts[i])]

\* read_csv on the purchased column followed by astype(bool): "True"/"False"
\* parse as booleans, any other non-empty text is truthy
ReadPurchased(t) == t # "False" /\ t # ""

\* the file after create (no content) or after an upload (header and rows)
EmptyFile == [written |-> FALSE, rows |-> <<>>]

\* load_data: an empty file gives the empty frame; otherwise read_csv.
\* A timestamp comes back as the text that was written.
load_data(f) ==
    LET rows == f.rows
        items == ReadItemColumn([i \in 1..Len(rows) |-> rows[i].item])
    IN  [i \in 1..Len(rows) |->
            [timestamp |-> [t |-> "str", n |-> rows[i].timestamp],
             item      |-> items[i],
             purchased |-> ReadPurchased(rows[i].purchased),
             category  |-> rows[i].category,
             store     |-> rows[i].store]]

\* to_csv on one item cell: a str as it is, an int as digits, a float with
\* its ".0", NaN as the empty field
WriteItem(c) ==
    CASE c.t = "str"   -> c.s
      [] c.t = "int"   -> FormatInt(c.n)
      [] c.t = "float" -> FormatInt(c.n) \o <<".", "0">>
      [] c.t = "nan"   -> <<>>

WritePurchased(b) == IF b THEN "True" ELSE "False"

\* df.to_csv(index=False): the row labels are not written
to_csv(d) ==
    [i \in 1..Len(d) |->
        [timestamp |-> d[i].timestamp.n,
         item      |-> WriteItem(d[i].item),
         purchased |-> WritePurchased(d[i].purchased),
         category  |-> d[i].category,
         store     |-> d[i].store]]

\* save_data: the whole file is replaced by the frame's CSV
save_data(d) == [written |-> TRUE, rows |-> to_csv(d)]

(***************************************************************************)
(* The Add Item handler.                                                   *)
(***************************************************************************)
\* new_item in df["item"].values: element-wise == of a str with the cells;
\* only a str cell can equal it
ItemInValues(name, d) ==
    \E i \in 1..Len(d) : d[i].item.t = "str" /\ d[i].item.s = name

\* the warning of the if/elif chain, "" when the Add goes through
AddWarning(d, new_store, new_category, new_item) ==
    IF new_store = None THEN "store"
    ELSE IF new_category = None THEN "category"
    ELSE IF new_item = <<>> THEN "name"
    ELSE IF ItemInValues(new_item, d) THEN "duplicate"
    ELSE ""

new_row(now, new_item, new_category, new_store) ==
    [timestamp |-> [t |-> "datetime", n |-> now],
     item      |-> StrCell(new_item),
     purchased |-> FALSE,
     category  |-> new_category,
     store     |-> new_store]

\* the new row put first: pd.concat([pd.DataFrame([new_row]), df])
ConcatFront(d, row) == <<row>> \o d

\* pd.concat([df, pd.DataFrame([new_row])], ignore_index=True)
Concat(d, row) == Append(d, row)

(***************************************************************************)
(* The store tabs.  A link carries the row's index label, which filtering, *)
(* sort_values and groupby all keep.                                       *)
(***************************************************************************)
\* the rows of one store, one category and one purchased value, in table
\* order, each with its label
RECURSIVE Bucket(_, _, _, _, _)
Bucket(d, i, store, category, purchased) ==
    IF i > Len(d) THEN <<>>
    ELSE (IF /\ d[i].store = store
             /\ d[i].category = category
             /\ d[i].purchased = purchased
          THEN <<[id |-> i - 1, row |-> d[i]]>>
          ELSE <<>>)
         \o Bucket(d, i + 1, store, category, purchased)

\* the links in display order: store tabs in STORES order; in a tab the
\* categories in sorted order; in a category not purchased before purchased
RECURSIVE RenderFrom(_, _)
RenderFrom(d, k) ==
    IF k >= Len(STORES) * Len(CategoryOrder) * 2 THEN <<>>
    ELSE Bucket(d, 1,
                STORES[(k \div (2 * Len(CategoryOrder))) + 1],
                CategoryOrder[((k \div 2) % Len(CategoryOrder)) + 1],
                k % 2 = 1)
         \o RenderFrom(d, k + 1)

\* the index reset after the sort: a link numbered by where it is displayed
RenderRenumbered(d) ==
    [k \in 1..Len(RenderFrom(d, 0)) |->
        [id |-> k - 1, row |-> RenderFrom(d, 0)[k].row]]

Render(d) == RenderFrom(d, 0)

(***************************************************************************)
(* The query parameter block.                                              *)
(***************************************************************************)
\* characters str.isdigit() accepts: the decimal digits and, among others,
\* the superscript two (U+00B2), which int() does not parse
DecimalChars == {"0", "1", "2", "3"}
DecimalValue == [c \in DecimalChars |->
                    CASE c = "0" -> 0 [] c = "1" -> 1 [] c = "2" -> 2 [] c = "3" -> 3]
IsDigitChars == DecimalChars \cup {"sup2"}

\* query_params.get(key, None) and ... .isdigit(): present, non-empty, all
\* characters digits
HasDigits(u, key) ==
    /\ key \in DOMAIN u
    /\ u[key] # <<>>
    /\ \A i \in 1..Len(u[key]) : u[key][i] \in IsDigitChars

\* int() raises ValueError unless every character is a decimal digit
IntRaises(p) == \E i \in 1..Len(p) : p[i] \notin DecimalChars

RECURSIVE int(_)
int(p) ==
    IF p = <<>> THEN 0
    ELSE 10 * int(SubSeq(p, 1, Len(p) - 1)) + DecimalValue[p[Len(p)]]

\* clicked_idx in df.index, for the RangeIndex of a freshly loaded frame
InIndex(i, d) == i >= 0 /\ i < Len(d)

\* purchased set rather than flipped: df.loc[clicked_idx, "purchased"] = True
MarkPurchased(d, i) == [d EXCEPT ![i + 1].purchased = TRUE]

\* df.loc[clicked_idx, "purchased"] = not df.loc[clicked_idx, "purchased"]
TogglePurchased(d, i) ==
    [d EXCEPT ![i + 1].purchased = ~d[i + 1].purchased]

\* df.drop(clicked_idx)
Drop(d, i) == SubSeq(d, 1, i) \o SubSeq(d, i + 2, Len(d))

\* st.query_params.clear()
EmptyParams == <<>>
QueryParamsClear(u) == EmptyParams

(***************************************************************************)
(* One script run after `df = load_data()`, as a chain of stages over the  *)
(* run's state: the frame, the file as this run last wrote it, the query   *)
(* parameters, the mutations applied, and how the run stopped.             *)
(***************************************************************************)
\* the handlers working on the file as it is now, read again, instead of on
\* the frame loaded at the top of the script
StartRunFresh(d, f, u) ==
    [df |-> load_data(f), file |-> f, saves |-> 0, url |-> u, muts |-> <<>>,
     id |-> -1, warning |-> "", view |-> <<>>, stop |-> ""]

StartRun(d, f, u) ==
    [df |-> d, file |-> f, saves |-> 0, url |-> u, muts |-> <<>>, id |-> -1,
     warning |-> "", view |-> <<>>, stop |-> ""]

\* save_data(df, file_id) from a handler
Save(st) == [st EXCEPT !.file = save_data(st.df), !.saves = st.saves + 1]

\* a rerun that is only scheduled, the script running on to its end
StRerunLater(st) == st

\* st.rerun(): the script stops here and a new run is scheduled
StRerun(st) == [st EXCEPT !.stop = "rerun"]

\* lines 224-247
AddHandler(st, clicked, in, now) ==
    IF st.stop # "" \/ ~clicked THEN st
    ELSE LET new_item == Strip(in.item)
             w == AddWarning(st.df, in.store, in.category, new_item)
         IN  IF w # "" THEN [st EXCEPT !.warning = w]
             ELSE StRerun(Save(
                    [st EXCEPT !.df = Concat(st.df, new_row(now, new_item,
                                                    in.category, in.store)),
                               !.muts = Append(st.muts, "add")]))

\* lines 260-305
StoreTabs(st) ==
    IF st.stop # "" THEN st ELSE [st EXCEPT !.view = Render(st.df)]

\* lines 314-321
ToggleBlock(st) ==
    IF st.stop # "" \/ ~HasDigits(st.url, "toggle") THEN st
    ELSE IF IntRaises(st.url["toggle"]) THEN [st EXCEPT !.stop = "ValueError"]
    ELSE LET clicked_idx == int(st.url["toggle"])
         IN  IF ~InIndex(clicked_idx, st.df) THEN st
             ELSE StRerun(
                    [Save([st EXCEPT !.df = TogglePurchased(st.df, clicked_idx),
                                     !.muts = Append(st.muts, "toggle"),
                                     !.id = clicked_idx])
                        EXCEPT !.url = QueryParamsClear(st.url)])

\* lines 324-331
DeleteBlock(st) ==
    IF st.stop # "" \/ ~HasDigits(st.url, "delete") THEN st
    ELSE IF IntRaises(st.url["delete"]) THEN [st EXCEPT !.stop = "ValueError"]
    ELSE LET clicked_idx == int(st.url["delete"])
         IN  IF ~InIndex(clicked_idx, st.df) THEN st
             ELSE StRerun(
                    [Save([st EXCEPT !.df = Drop(st.df, clicked_idx),
                                     !.muts = Append(st.muts, "delete"),
                                     !.id = clicked_idx])
                        EXCEPT !.url = QueryParamsClear(st.url)])

RunScript(d, f, u, clicked, in, now) ==
    DeleteBlock(ToggleBlock(StoreTabs(AddHandler(StartRun(d, f, u),
                                                  clicked, in, now))))

(***************************************************************************)
(* What the users do: the inputs of a run.                                 *)
(***************************************************************************)
\* what the widgets hold when the button is clicked: four inputs the
\* handler can accept, one that needs trimming, and one for each warning
Input(item, store, category) ==
    [item |-> item, store |-> store, category |-> category]

AddInputs ==
    {Input(<<"a">>, STORES[1], CATEGORIES[1]),
     Input(<<"1">>, STORES[1], CATEGORIES[4]),
     Input(<<"1">>, STORES[1], CATEGORIES[1]),
     Input(<<"N", "A">>, STORES[4], CATEGORIES[1]),
     Input(<<" ", "a", " ">>, STORES[1], CATEGORIES[1]),
     Input(<<>>, STORES[1], CATEGORIES[1]),
     Input(<<" ">>, STORES[1], CATEGORIES[1]),
     Input(<<"a">>, None, CATEGORIES[1]),
     Input(<<"a">>, STORES[1], None)}

\* the widgets of a run in which the button was not clicked
NoInput == [item |-> <<>>, store |-> None, category |-> None]

\* the query strings a page is opened with
Param(key, text) == [k \in {key} |-> text]
Params(toggle, delete) ==
    [k \in {"toggle", "delete"} |-> IF k = "toggle" THEN toggle ELSE delete]

Urls ==
    {EmptyParams,
     Param("toggle", <<"0">>), Param("toggle", <<"1">>),
     Param("delete", <<"0">>), Params(<<"0">>, <<"0">>),
     Param("toggle", <<"a">>), Param("toggle", <<"sup2">>),
     Param("toggle", <<>>), Params(<<"1">>, <<"0">>)}

(***************************************************************************)
(* Observations of the last step, for stating the properties.              *)
(***************************************************************************)
\* the last save: who, which mutation, the frame it loaded and the frame it
\* wrote
NoSave == [s |-> "", kind |-> "", id |-> -1, before |-> <<>>, after |-> <<>>]

NoEvent ==
    [s |-> "", step |-> "init", clicked |-> FALSE, input |-> NoInput,
     url |-> EmptyParams, before |-> <<>>, after |-> <<>>, muts |-> <<>>,
     id |-> -1, saves |-> 0, stop |-> "", warning |-> "", view |-> <<>>,
     replay |-> FALSE, stale |-> FALSE, prev |-> NoSave]

(***************************************************************************)
(* The state machine.                                                      *)
(***************************************************************************)
Init ==
    /\ file = EmptyFile
    /\ clock = 0
    /\ pc = [s \in Sessions |-> "idle"]
    /\ btn = [s \in Sessions |-> FALSE]
    /\ url = [s \in Sessions |-> EmptyParams]
    /\ df = [s \in Sessions |-> <<>>]
    /\ processed = [s \in Sessions |-> {}]
    /\ ev = NoEvent
    /\ lastSave = NoSave

\* processed[s]: the parameters of the session's query string that a run of
\* the session has been through (applied, or looked at and ignored) and that
\* are still in the query string

\* line 200: a run starts and loads the file
Start(s, clicked, u) ==
    /\ pc' = [pc EXCEPT ![s] = "loaded"]
    /\ btn' = [btn EXCEPT ![s] = clicked]
    /\ url' = [url EXCEPT ![s] = u]
    /\ df' = [df EXCEPT ![s] = load_data(file)]
    /\ ev' = [NoEvent EXCEPT !.s = s, !.step = "load"]
    /\ UNCHANGED <<file, clock, lastSave>>

\* the page is opened with a query string: a link of the list was clicked,
\* or an address was typed
Navigate(s, urls) ==
    /\ pc[s] = "idle"
    /\ \E u \in urls : Start(s, FALSE, u)
    /\ processed' = [processed EXCEPT ![s] = {}]

\* the page is run again as it is
Reload(s) ==
    /\ pc[s] = "idle"
    /\ Start(s, FALSE, url[s])
    /\ UNCHANGED processed

\* the Add Item button is clicked
ClickAdd(s) ==
    /\ pc[s] = "idle"
    /\ Start(s, TRUE, url[s])
    /\ UNCHANGED processed

\* the run st.rerun() scheduled
Rerun(s) ==
    /\ pc[s] = "rerun"
    /\ Start(s, FALSE, url[s])
    /\ UNCHANGED processed

\* lines 205-331: the rest of the script on the loaded frame
Script(s, inputs) ==
    /\ pc[s] = "loaded"
    /\ \E in \in (IF btn[s] THEN inputs ELSE {NoInput}) :
       \E st \in {RunScript(df[s], file, url[s], btn[s], in, clock + 1)} :
         LET added == "add" \in Range(st.muts)
             commands == Range(st.muts) \ {"add"}
         IN  /\ added => clock < MaxAdds
             /\ file' = st.file
             /\ clock' = IF added THEN clock + 1 ELSE clock
             /\ pc' = [pc EXCEPT ![s] = IF st.stop = "rerun" THEN "rerun"
                                        ELSE "idle"]
             /\ btn' = [btn EXCEPT ![s] = FALSE]
             /\ url' = [url EXCEPT ![s] = st.url]
             /\ df' = [df EXCEPT ![s] = <<>>]
             /\ processed' = [processed EXCEPT ![s] =
                              IF st.stop = "" THEN DOMAIN st.url
                              ELSE (@ \cup commands) \cap DOMAIN st.url]
             /\ ev' = [s |-> s, step |-> "script", clicked |-> btn[s],
                       input |-> in, url |-> url[s], before |-> df[s],
                       after |-> st.df, muts |-> st.muts, id |-> st.id,
                       saves |-> st.saves, stop |-> st.stop,
                       warning |-> st.warning, view |-> st.view,
                       replay |-> commands \cap processed[s] # {},
                       stale |-> load_data(file) # df[s],
                       prev |-> lastSave]
             /\ lastSave' = IF st.saves = 0 THEN lastSave
                            ELSE [s |-> s, kind |-> st.muts[Len(st.muts)],
                                  id |-> st.id, before |-> df[s],
                                  after |-> st.df]

\* one session, all the inputs
Next ==
    \/ Navigate("A", Urls)
    \/ Reload("A")
    \/ ClickAdd("A")
    \/ Rerun("A")
    \/ Script("A", AddInputs)

Spec == Init /\ [][Next]_vars

\* two sessions whose runs interleave between the load and the rest of the
\* script, on fewer inputs
ConcInputs ==
    {Input(<<"a">>, STORES[1], CATEGORIES[1]),
     Input(<<"1">>, STORES[1], CATEGORIES[1]),
     Input(<<>>, STORES[1], CATEGORIES[1])}

ConcUrls == {EmptyParams, Param("toggle", <<"0">>), Param("delete", <<"0">>)}

NextConc ==
    \E s \in Sessions :
        \/ Navigate(s, ConcUrls)
        \/ Reload(s)
        \/ ClickAdd(s)
        \/ Rerun(s)
        \/ Script(s, ConcInputs)

SpecConc == Init /\ [][NextConc]_vars

(***************************************************************************)
(* Properties.  `ev` describes the step just taken: for a script run, the  *)
(* frame it loaded (before), the frame it ended with (after), the          *)
(* mutations it applied and saved, and the save that preceded it (prev).   *)
(***************************************************************************)
Ran == ev.step = "script"
Applied(kind) == Ran /\ ev.muts = <<kind>>

\* the texts a frame's item column is written as
ItemTexts(d) == [i \in 1..Len(d) |-> WriteItem(d[i].item)]

\* a parameter that is no non-negative integer, or no row position of T
ParsesAsNat(p) == p # <<>> /\ \A i \in 1..Len(p) : p[i] \in DecimalChars
InvalidParam(u, key, T) ==
    /\ key \in DOMAIN u
    /\ ~ParsesAsNat(u[key]) \/ ~InIndex(int(u[key]), T)
ValidParam(u, key, T) ==
    key \in DOMAIN u /\ ParsesAsNat(u[key]) /\ InIndex(int(u[key]), T)

\* C1: no two rows of the stored table, and no two rows of a session's
\* frame, have the same item name.
C1_UniqueItems ==
    /\ \A i, j \in 1..Len(file.rows) :
           i # j => file.rows[i].item # file.rows[j].item
    /\ \A s \in Sessions : \A i, j \in 1..Len(df[s]) :
           i # j => df[s][i].item # df[s][j].item

\* C2: a run whose Add is rejected (empty or blank name, a name already in
\* the loaded frame, no store, no category) appends no row, saves nothing and
\* leaves the stored table as it was.
C2_RejectedAddChangesNothing ==
    (Ran /\ ev.clicked /\ ev.warning # "")
        => (ev.saves = 0 /\ ev.muts = <<>> /\ ev.after = ev.before)

\* C3: an Add of a trimmed non-empty name that is not an item of the loaded
\* frame T, with a store and a category selected, saves a frame of len(T)+1
\* rows: the rows of T unchanged and in order, then a row with that name,
\* purchased = False and the selected category and store.
C3_AddAppends ==
    LET T == ev.before
        n == Strip(ev.input.item)
        last == ev.after[Len(ev.after)]
    IN  (/\ Ran /\ ev.clicked
         /\ ev.input.store # None /\ ev.input.category # None
         /\ n # <<>>
         /\ \A i \in 1..Len(T) : ItemTexts(T)[i] # n)
        => (/\ ev.muts = <<"add">>
            /\ ev.saves = 1
            /\ file = save_data(ev.after)
            /\ Len(ev.after) = Len(T) + 1
            /\ SubSeq(ev.after, 1, Len(T)) = T
            /\ last.item = StrCell(n)
            /\ last.purchased = FALSE
            /\ last.category = ev.input.category
            /\ last.store = ev.input.store)

C3_Witness ==
    /\ Applied("add")
    /\ Len(ev.before) >= 1
    /\ ev.input.item # Strip(ev.input.item)

C5_DeleteRemovesName ==
    Applied("delete")
        => LET T == ev.before
               i == ev.id + 1
               next == load_data(file)
           IN  /\ Len(ev.after) = Len(T) - 1
               /\ file = save_data(ev.after)
               /\ \A k \in 1..Len(ev.after) : ev.after[k].item # T[i].item
               /\ \A k \in 1..Len(T) :
                      /\ k < i => ev.after[k] = T[k]
                      /\ k > i => ev.after[k - 1] = T[k]
               /\ Len(next) = Len(T) - 1
               /\ \A k \in 1..Len(T) :
                      k > i => to_csv(next)[k - 1] = to_csv(T)[k]

\* C6: a toggle or delete parameter is used up by the run that processes
\* it: no later run of the session (reload, rerun or Add click) applies a
\* mutation from a parameter that an earlier run already processed.
C6_NoReplay == Ran => ~ev.replay

\* C7: a toggle or delete parameter that is no non-negative integer, or no
\* row position of the loaded frame, does nothing: the run does not fail,
\* and applies and saves nothing for it.
C7_InvalidParamIsNoOp ==
    Ran => /\ \A key \in DOMAIN ev.url :
                  InvalidParam(ev.url, key, ev.before)
                      => (ev.stop # "ValueError" /\ key \notin Range(ev.muts))
           /\ ((\A key \in DOMAIN ev.url : InvalidParam(ev.url, key, ev.before))
                   /\ ~ev.clicked)
                  => (ev.saves = 0 /\ ev.after = ev.before)

OneMutation(T, U) ==
    \/ Len(U) = Len(T) + 1 /\ SubSeq(U, 1, Len(T)) = T
    \/ \E i \in 1..Len(T) : U = [T EXCEPT ![i].purchased = ~T[i].purchased]
    \/ \E i \in 1..Len(T) : U = SubSeq(T, 1, i - 1) \o SubSeq(T, i + 1, Len(T))

BothLoadedTheSame ==
    /\ Ran /\ ev.saves >= 1
    /\ ev.prev.s \notin {"", ev.s}
    /\ ev.prev.before = ev.before

C9_LastWriterWins ==
    BothLoadedTheSame
        => (/\ file = save_data(ev.after)
            /\ OneMutation(ev.before, ev.after)
            /\ ev.stop = "rerun")

C9_Witness ==
    /\ BothLoadedTheSame
    /\ Len(ev.before) >= 1
    /\ ev.prev.after # ev.after

\* C10: rendering does not change the frame, and the id in a displayed
\* row's links is that row's position in the frame, whatever the store
\* filter and the sort did: the command with that id acts on the row the
\* link was displayed with.
C10_LinkIdIsRowPosition ==
    Ran => /\ \A k \in 1..Len(ev.view) :
                  /\ InIndex(ev.view[k].id, ev.before)
                  /\ ev.before[ev.view[k].id + 1] = ev.view[k].row
           /\ (ev.view # <<>> /\ ev.muts = <<>>) => ev.after = ev.before
           /\ \A k \in 1..Len(ev.view) :
                  LET l == ev.view[k] IN
                  /\ (Applied("toggle") /\ l.id = ev.id)
                        => ev.after[ev.id + 1] =
                               [l.row EXCEPT !.purchased = ~l.row.purchased]
                  /\ (Applied("delete") /\ l.id = ev.id)
                        => /\ Len(ev.after) = Len(ev.before) - 1
                           /\ \A j \in 1..Len(ev.before) :
                                  j # ev.id + 1 =>
                                      \E m \in 1..Len(ev.after) :
                                          ev.after[m] = ev.before[j]
           /\ Applied("toggle") =>
                  \E k \in 1..Len(ev.view) : ev.view[k].id = ev.id

C10_Witness ==
    /\ Applied("toggle")
    /\ Len(ev.view) >= 2
    /\ ev.view[1].id = ev.id
    /\ ev.id # 0

====
